---- MODULE Spec2Model ----
(***************************************************************************)
(* Model of the NER notebooks: ber-ner-2.ipynb, the two notebooks held in  *)
(* albert-ner.ipynb and the evaluation notebook.  A notebook is a sequence *)
(* of cells run top to bottom; an uncaught exception stops the run.        *)
(***************************************************************************)
EXTENDS Integers, Sequences, FiniteSets, TLC

(***************************************************************************)
(* Program constants.                                                      *)
(***************************************************************************)
max_seq_length == 202
BATCH_SIZE == 8
DatasetCap == 8000
LogEvery == 10
PrintedVocabSize == 30000

(***************************************************************************)
(* Bounds of the model.                                                    *)
(***************************************************************************)
MaxEpoch == 2
MaxTail == 2
MaxShuffle == 3

(***************************************************************************)
(* Generic helpers.                                                        *)
(***************************************************************************)
Range(s) == {s[i] : i \in DOMAIN s}

Min(a, b) == IF a < b THEN a ELSE b

Repeat(x, n) == [i \in 1..n |-> x]

\* s[:n] of Python for n >= 0
Take(s, n) == SubSeq(s, 1, Min(n, Len(s)))

\* s[n:] of Python for n >= 0
Drop(s, n) == SubSeq(s, Min(n, Len(s)) + 1, Len(s))

SeqsUpTo(S, n) == UNION {[1..k -> S] : k \in 0..n}

\* All the orders in which iterating over the set S can yield its members
\* (the iteration order of a Python set of str is fixed for one set object
\* but depends on the session's hash seed).
Enumerations(S) ==
    {q \in [1..Cardinality(S) -> S] : \A i, j \in DOMAIN q : q[i] = q[j] => i = j}

(***************************************************************************)
(* Input files.  A line of train.txt is the list line.strip().split(" "), *)
(* the empty list standing for a line that strips to ''.  A line of        *)
(* vocab.txt is its stripped text.                                         *)
(***************************************************************************)
BlankLine == <<>>
PairA == <<"a", "O">>
PairC == <<"[CLS]", "[SEP]">>
OneField == <<"a">>

TailLines == {BlankLine, PairA, PairC}

\* (fill line, number of repetitions): a sentence that just fits a row, one
\* that does not, as many sentences as a batch holds, a line of one field
Fills ==
    {<<PairA, 0>>, <<PairA, max_seq_length - 2>>, <<PairA, max_seq_length - 1>>,
     <<BlankLine, BATCH_SIZE>>, <<OneField, 1>>}

\* the files the data cells are explored on
TrainFiles ==
    {Repeat(f[1], f[2]) \o t : f \in Fills, t \in SeqsUpTo(TailLines, MaxTail)}

VocabFiles ==
    {<<"[CLS]", "[SEP]">>, <<"[SEP]", "a", "[CLS]", "a">>, <<"a">>}

\* the files the training cells are explored on: a few sentences, or nearly
\* a batch of them and a few more, each empty or of one token
ShortFiles ==
    {Repeat(BlankLine, k) \o t :
        k \in {0, BATCH_SIZE - 1}, t \in SeqsUpTo({BlankLine, PairC}, MaxTail)}

\* files of empty sentences long enough for the training loop to reach its
\* logging steps: LogEvery batches, the last of one row, and twice as many
LongFiles ==
    {Repeat(BlankLine, (c * LogEvery - 1) * BATCH_SIZE + 1) : c \in {1, 2}}

\* Files other than data/train.txt handed to handle(filepath): a sentence of
\* a token the vocabulary lacks, closed by a blank line or not.
ForeignFiles == {<<<<"z", "O">>, BlankLine>>, <<<<"z", "O">>>>}

(***************************************************************************)
(* readVocab                                                               *)
(***************************************************************************)
\* as if readVocab read the vocabulary file only
VocabListVocabOnly(vf, tf) == vf

\* the list `vocab` before set(): every stripped line of the vocabulary file,
\* then the first field of every non-blank line of data/train.txt
VocabList(vf, tf) ==
    LET nonblank == SelectSeq(tf, LAMBDA l : l # BlankLine)
    IN  vf \o [i \in 1..Len(nonblank) |-> nonblank[i][1]]

\* as if the comprehension were {data: i for i, data in enumerate(it)}
DictOfEnumerateFromZero(it) ==
    [d \in Range(it) |->
        (CHOOSE i \in DOMAIN it : it[i] = d /\ \A j \in DOMAIN it : it[j] = d => j <= i) - 1]

\* {data: 1+i for i, data in enumerate(it)}: a later duplicate key overwrites
DictOfEnumerate(it) ==
    [d \in Range(it) |->
        CHOOSE i \in DOMAIN it : it[i] = d /\ \A j \in DOMAIN it : it[j] = d => j <= i]

\* as if the comprehension were {i: data for i, data in enumerate(it)}
InverseOfEnumerateFromZero(it) == [i \in 0..(Len(it) - 1) |-> it[i + 1]]

\* {1+i: data for i, data in enumerate(it)}
InverseOfEnumerate(it) == [i \in DOMAIN it |-> it[i]]

\* the sequences enumerate(vocab) can yield after vocab = set(vocab)
VocabIterationsNoSet(list) == {list}

VocabIterations(list) == Enumerations(Range(list))

readVocab(vf, tf, it) ==
    [vocab |-> Range(it),
     vocab2id |-> DictOfEnumerate(it),
     id2vocab |-> InverseOfEnumerate(it),
     vocab_size |-> Len(it)]

(***************************************************************************)
(* handle                                                                  *)
(***************************************************************************)
\* The `for index, line in enumerate(fp)` loop of handle, written without
\* recursion.  The loop appends the current sentence to words/labels at every
\* blank line and starts a new one, so sentence k is the lines between blank
\* line k-1 and blank line k; what follows the last blank line stays in
\* `word`/`label` and is never appended.  linesplit[1] raises IndexError at
\* the first line that has a single field.
BlankAt(lines) == {i \in DOMAIN lines : lines[i] = BlankLine}

\* the position of the k-th blank line (0 for k = 0)
KthBlank(lines, k) ==
    IF k = 0 THEN 0
    ELSE SelectSeq([i \in DOMAIN lines |-> i], LAMBDA i : lines[i] = BlankLine)[k]

\* as if label.insert(0, linesplit[1]) were used in place of label.append
SentenceFieldMisaligned(lines, k, f) ==
    LET n == KthBlank(lines, k) - KthBlank(lines, k - 1) - 1 IN
    [j \in 1..n |->
        lines[KthBlank(lines, k - 1) + (IF f = 2 THEN n + 1 - j ELSE j)][f]]

\* field f of the lines of sentence k
SentenceField(lines, k, f) ==
    [j \in 1..(KthBlank(lines, k) - KthBlank(lines, k - 1) - 1) |->
        lines[KthBlank(lines, k - 1) + j][f]]

ScanLines(lines) ==
    IF \E i \in DOMAIN lines : Len(lines[i]) = 1
        THEN [raised |-> "IndexError", words |-> <<>>, labels |-> <<>>,
              label_list |-> {"[CLS]", "[SEP]"}]
        ELSE [raised |-> "",
              words |-> [k \in 1..Cardinality(BlankAt(lines)) |->
                            SentenceField(lines, k, 1)],
              labels |-> [k \in 1..Cardinality(BlankAt(lines)) |->
                            SentenceField(lines, k, 2)],
              label_list |-> {"[CLS]", "[SEP]"} \cup
                             {lines[i][2] : i \in DOMAIN lines \ BlankAt(lines)}]

\* while len(row) < max_seq_length - 1: row.append(0)
PadZeros(row) ==
    IF Len(row) < max_seq_length - 1
        THEN row \o Repeat(0, max_seq_length - 1 - Len(row))
        ELSE row

\* row[:max_seq_length - 2] when the row is longer than that
TruncateNoop(row) == row

Truncate(row) ==
    IF Len(row) > max_seq_length - 2 THEN Take(row, max_seq_length - 2) ELSE row

\* as if "[SEP]" were appended right after the tokens and the zeros after it
EncodeRowSepFirst(items, dict) ==
    IF \E k \in DOMAIN items : items[k] \notin DOMAIN dict
        THEN [raised |-> "KeyError", row |-> <<>>]
    ELSE IF "[CLS]" \notin DOMAIN dict \/ "[SEP]" \notin DOMAIN dict
        THEN [raised |-> "KeyError", row |-> <<>>]
    ELSE [raised |-> "",
          row |-> LET r == Append(<<dict["[CLS]"]>> \o
                                  Truncate([k \in DOMAIN items |-> dict[items[k]]]),
                                  dict["[SEP]"])
                  IN  r \o Repeat(0, max_seq_length - Len(r))]

\* One pass of the body of `for i in words:` (or `for i in labels:`): the ids
\* of the items, truncated, "[CLS]" in front, zeros appended, "[SEP]" last.
\* A key missing from the dict raises KeyError at its lookup.
EncodeRow(items, dict) ==
    IF \E k \in DOMAIN items : items[k] \notin DOMAIN dict
        THEN [raised |-> "KeyError", row |-> <<>>]
    ELSE IF "[CLS]" \notin DOMAIN dict
        THEN [raised |-> "KeyError", row |-> <<>>]
    ELSE IF "[SEP]" \notin DOMAIN dict
        THEN [raised |-> "KeyError", row |-> <<>>]
    ELSE [raised |-> "",
          row |-> Append(PadZeros(<<dict["[CLS]"]>> \o
                                  Truncate([k \in DOMAIN items |-> dict[items[k]]])),
                         dict["[SEP]"])]

\* the rows of all the sentences, or the first exception met
EncodeAll(sents, dict) ==
    LET enc == [s \in DOMAIN sents |-> EncodeRow(sents[s], dict)] IN
    IF \E s \in DOMAIN sents : enc[s].raised # ""
        THEN [raised |-> "KeyError", rows |-> <<>>]
        ELSE [raised |-> "", rows |-> [s \in DOMAIN sents |-> enc[s].row]]

\* handle(filepath), reading the module-level vocab2id; `it` is the order in
\* which label_list is iterated.  The result is the returned tuple, or the
\* exception that leaves handle.
handle(file, v2id, it) ==
    LET scan == ScanLines(file)
        l2id == DictOfEnumerate(it)
        ins  == EncodeAll(scan.words, v2id)
        labs == EncodeAll(scan.labels, l2id)
    IN  IF scan.raised # "" THEN [raised |-> scan.raised]
        ELSE IF ins.raised # "" THEN [raised |-> ins.raised]
        ELSE IF labs.raised # "" THEN [raised |-> labs.raised]
        ELSE [raised |-> "",
              words |-> scan.words, labels |-> scan.labels,
              label_list |-> scan.label_list,
              label2id |-> l2id, id2label |-> InverseOfEnumerate(it),
              label_size |-> Cardinality(scan.label_list),
              input_ids |-> ins.rows, label_ids |-> labs.rows]

\* the label_list handle builds from a file ("" when the scan raises)
LabelListOf(file) == ScanLines(file).label_list

(***************************************************************************)
(* torch.Tensor(rows).long(): the ids pass through float32.  A float32    *)
(* holds every integer up to 2^24; between 2^24 and 2^25 an odd integer    *)
(* rounds to the neighbour that is a multiple of 4.  Rows of unequal       *)
(* length make the constructor raise.                                      *)
(***************************************************************************)
Float32Long(x) ==
    IF x <= 2^24 \/ x % 2 = 0 THEN x
    ELSE IF (x + 1) % 4 = 0 THEN x + 1 ELSE x - 1

Ragged(rows) == \E i, j \in DOMAIN rows : Len(rows[i]) # Len(rows[j])

ToLongTensor(rows) ==
    [i \in DOMAIN rows |-> [p \in DOMAIN rows[i] |-> Float32Long(rows[i][p])]]

(***************************************************************************)
(* The notebooks.  albert-ner.ipynb holds two notebooks one after the      *)
(* other: the first trains every model, the second only index 3.           *)
(***************************************************************************)
TrainNotebooks == {"ber-ner-2", "albert-ner-1", "albert-ner-2"}
EvalNotebook == "eval"
Notebooks == TrainNotebooks \cup {EvalNotebook}

Encoder(n) == IF n = "ber-ner-2" THEN "bert" ELSE "albert"
Prefix(n) == IF n = "ber-ner-2" THEN "Bert" ELSE "AlBert"

nameList(n) ==
    [i \in 0..3 |-> Prefix(n) \o
        (CASE i = 0 -> "-CRF"
           [] i = 1 -> "-BiLSTM-CRF"
           [] i = 2 -> "-BiGRU-CRF"
           [] i = 3 -> "-BiGRU-selfattentin-CRF")]

\* the sub-modules each class assigns to self in __init__, in forward order
Layers(n, i) ==
    CASE i = 0 -> <<Encoder(n)>>
      [] i = 1 -> <<Encoder(n), "bilstm">>
      [] i = 2 -> <<Encoder(n), "bigru">>
      [] i = 3 -> <<Encoder(n), "bigru", "selfattention.selfattention">>

\* the names model.parameters() and model.state_dict() cover: the registered
\* sub-modules.  W1, W2, W3 are locals of SelfAttention.forward.
AttentionWeights == {"selfattention.W1", "selfattention.W2", "selfattention.W3"}

\* as if __init__ had assigned W1, W2, W3 to self
ParamNamesWithW(n, i) ==
    Range(Layers(n, i)) \cup {"crf"} \cup (IF i = 3 THEN AttentionWeights ELSE {})

ParamNames(n, i) == Range(Layers(n, i)) \cup {"crf"}

\* modelList = [Class(vocab_size, config_file), ...]: version 0 of every
\* parameter (the version counts the optimizer updates applied to it); the
\* word-embedding table has as many rows as the configuration says, the
\* vocab_size argument is not used
NewModel(n, i, cfg) ==
    [params |-> [p \in ParamNames(n, i) |-> 0],
     word_embeddings |-> cfg.vocab_size]

\* `if index != 2: continue` and `if index != 3: continue`
Trains(n, i) ==
    CASE n = "ber-ner-2" -> i = 2
      [] n = "albert-ner-1" -> TRUE
      [] n = "albert-ner-2" -> i = 3
      [] OTHER -> FALSE

(***************************************************************************)
(* forward.  Tensors are symbolic: what was computed from what, and the    *)
(* meaning of each axis.                                                   *)
(***************************************************************************)
PermuteNothing(t) == t

\* t.permute(1, 0, 2)
Permute102(t) == [t EXCEPT !.axes = <<t.axes[2], t.axes[1], t.axes[3]>>]

\* `y = self.albert(x)` keeps the tuple the encoder returns, and nn.GRU
\* rejects a tuple; every other forward unpacks `y, _ = ...`
KeepsTuple(n, i) == n = "albert-ner-1" /\ i = 3

\* the output of the last layer before the CRF, batch first
LastLayerOutput(n, i, m, x, w) ==
    [layers |-> Layers(n, i), params |-> m.params, input |-> x,
     W |-> IF i = 3 THEN w ELSE <<>>, axes |-> <<"batch", "seq", "tag">>]

\* the size of dimension k of a tensor computed from the batch x
AxisSize(t, k) ==
    CASE t.axes[k] = "batch" -> Len(t.input)
      [] t.axes[k] = "seq" -> Len(t.input[1])
      [] OTHER -> 0

\* crf.decode(emissions) of a CRF built without batch_first: the first
\* dimension is read as the sequence and the second as the batch; one path
\* for each index of the second, one tag for each index of the first.  A
\* path is named by the slice of the tensor it was decoded from: the index
\* held fixed in the second dimension, and the dimension run through and
\* its size.
CrfDecode(emissions) ==
    [b \in 1..AxisSize(emissions, 2) |->
        [of |-> <<emissions.axes[2], b>>,
         along |-> emissions.axes[1],
         length |-> AxisSize(emissions, 1)]]

\* word_embeddings(x): an id outside the table raises IndexError
EmbeddingRaises(m, x) ==
    \E row \in Range(x) : \E id \in Range(row) :
        id \notin 0..(m.word_embeddings - 1)

\* Class.forward(x, tags); tags = <<>> stands for None
Forward(n, i, m, x, tags, w) ==
    IF EmbeddingRaises(m, x) THEN [op |-> "raise", exc |-> "IndexError"]
    ELSE IF KeepsTuple(n, i) THEN [op |-> "raise", exc |-> "TypeError"]
    ELSE IF tags = <<>>
        THEN LET output == Permute102(LastLayerOutput(n, i, m, x, w)) IN
             [op |-> "crf.decode", emissions |-> output,
              paths |-> CrfDecode(output)]
        ELSE [op |-> "neg",
              arg |-> [op |-> "crf", reduction |-> "mean",
                       emissions |-> LastLayerOutput(n, i, m, x, w),
                       tags |-> [ids |-> tags, axes |-> <<"batch", "seq">>]]]

\* nn.init.uniform_(W, -std, std) for W1, W2, W3, in units of std
WeightDraws == {<<-1, -1, -1>>, <<1, -1, 0>>, <<1, 1, 1>>}

(***************************************************************************)
(* State: the inputs of a run, the cell being run, and the module-level    *)
(* names of the notebook.                                                  *)
(***************************************************************************)
VARIABLES
    nb,             \* which notebook is run
    EPOCH,          \* the value the `EPOCH = ...` cell sets
    vocabFile,      \* data/vocab.txt
    trainFile,      \* data/train.txt
    handleFile,     \* the file handle(filepath) reads
    config,         \* what config_file holds
    pc,             \* the cell or statement to run next
    raised,         \* the uncaught exception that stopped the run, if any
    vocab2id, id2vocab, vocab_size,
    words, labels, label2id, id2label, label_size,
    input_ids, label_ids,
    dataset,        \* the BertNerDataset the DataLoader iterates over
    modelList,      \* position -> model
    index, epoch, step,
    remaining,      \* dataset positions the sampler has not yielded this epoch
    optimizer, grads, loss, W,
    lossDataFrame,
    files,          \* what this run wrote to disk
    y_pred,
    printed         \* the scores the evaluation loop printed

inputs == <<nb, EPOCH, vocabFile, trainFile, handleFile, config>>
vocabVars == <<vocab2id, id2vocab, vocab_size>>
labelVars == <<words, labels, label2id, id2label, label_size>>
bindings == <<input_ids, label_ids>>
loopVars == <<index, epoch, step, remaining>>
torchVars == <<modelList, optimizer, grads, loss, W>>
outVars == <<lossDataFrame, files, y_pred, printed>>
vars == <<inputs, pc, raised, vocabVars, labelVars, bindings, dataset,
          loopVars, torchVars, outVars>>

NoException == [exc |-> "", at |-> ""]
NoLoss == [op |-> "none"]
CheckpointPath == "outputs/AlBert-BiGRU-CRF.pt"

\* the state_dict an earlier training session saved at CheckpointPath
EarlierCheckpoint == [p \in ParamNames("albert-ner-1", 2) |-> 1]

\* config.json: the one of the printed model, and one written for the
\* vocabulary file, with one row for each of its lines
Configs(vf) == {[vocab_size |-> n] : n \in {PrintedVocabSize, Len(vf)}}

\* the state of a fresh kernel, whatever the files and the notebook
InitRest ==
    /\ EPOCH \in IF nb = EvalNotebook THEN {1} ELSE 1..MaxEpoch
    /\ pc = "readVocab"
    /\ raised = NoException
    /\ vocab2id = <<>> /\ id2vocab = <<>> /\ vocab_size = 0
    /\ words = <<>> /\ labels = <<>>
    /\ label2id = <<>> /\ id2label = <<>> /\ label_size = 0
    /\ input_ids = <<>> /\ label_ids = <<>>
    /\ dataset = [input_ids |-> <<>>, label_ids |-> <<>>]
    /\ modelList = <<>>
    /\ index = 0 /\ epoch = 0 /\ step = 0 /\ remaining = {}
    /\ optimizer = [model |-> 0, params |-> {}]
    /\ grads = <<>>
    /\ loss = NoLoss
    /\ W = <<>>
    /\ lossDataFrame = <<>>
    /\ files = <<>>
    /\ y_pred = NoLoss
    /\ printed = <<>>

Init ==
    \* The data cells read neither nb nor EPOCH, and the training cells read
    \* of the data only the dataset: the two groups of inputs are varied one
    \* at a time, under the configuration of the printed model.
    /\ \/ /\ nb = EvalNotebook
          /\ vocabFile \in VocabFiles
          /\ trainFile \in TrainFiles
          /\ handleFile = trainFile
       \/ /\ nb \in TrainNotebooks
          /\ vocabFile = <<"[CLS]", "[SEP]">>
          /\ trainFile \in ShortFiles
          /\ handleFile \in {trainFile} \cup ForeignFiles
    /\ config = [vocab_size |-> PrintedVocabSize]
    /\ InitRest

\* an exception leaves the cell: nothing below it runs
Halt(exc) ==
    /\ raised' = [exc |-> exc, at |-> pc]
    /\ pc' = "halted"

(***************************************************************************)
(* Data cells                                                              *)
(***************************************************************************)
\* (vocab, vocab2id, id2vocab, vocab_size) = readVocab()
ReadVocabCell ==
    /\ pc = "readVocab"
    /\ \E it \in VocabIterations(VocabList(vocabFile, trainFile)) :
         LET r == readVocab(vocabFile, trainFile, it) IN
         /\ vocab2id' = r.vocab2id
         /\ id2vocab' = r.id2vocab
         /\ vocab_size' = r.vocab_size
    /\ pc' = "handle"
    /\ UNCHANGED <<inputs, raised, labelVars, bindings, dataset, loopVars,
                   torchVars, outVars>>

\* as if handle registered a padding token in the module-level vocab2id
HandleCellRegistersPad ==
    /\ pc = "handle"
    /\ \E it \in Enumerations(LabelListOf(handleFile)) :
         LET r == handle(handleFile, vocab2id, it) IN
         IF r.raised # ""
            THEN /\ Halt(r.raised)
                 /\ UNCHANGED <<labelVars, bindings>>
            ELSE /\ words' = r.words
                 /\ labels' = r.labels
                 /\ label2id' = r.label2id
                 /\ id2label' = r.id2label
                 /\ label_size' = r.label_size
                 /\ input_ids' = r.input_ids
                 /\ label_ids' = r.label_ids
                 /\ pc' = "tensor"
                 /\ UNCHANGED raised
    /\ vocab2id' = ("[PAD]" :> 0) @@ vocab2id
    /\ UNCHANGED <<inputs, id2vocab, vocab_size, dataset, loopVars, torchVars,
                   outVars>>

\* words, labels, ..., input_ids, label_ids = handle()
HandleCell ==
    /\ pc = "handle"
    /\ \E it \in Enumerations(LabelListOf(handleFile)) :
         LET r == handle(handleFile, vocab2id, it) IN
         IF r.raised # ""
            THEN /\ Halt(r.raised)
                 /\ UNCHANGED <<labelVars, bindings>>
            ELSE /\ words' = r.words
                 /\ labels' = r.labels
                 /\ label2id' = r.label2id
                 /\ id2label' = r.id2label
                 /\ label_size' = r.label_size
                 /\ input_ids' = r.input_ids
                 /\ label_ids' = r.label_ids
                 /\ pc' = "tensor"
                 /\ UNCHANGED raised
    /\ UNCHANGED <<inputs, vocabVars, dataset, loopVars, torchVars, outVars>>

\* input_ids = torch.Tensor(input_ids).long(), and the same for label_ids
TensorCell ==
    /\ pc = "tensor"
    /\ IF Ragged(input_ids) \/ Ragged(label_ids)
          THEN /\ Halt("ValueError")
               /\ UNCHANGED bindings
          ELSE /\ input_ids' = ToLongTensor(input_ids)
               /\ label_ids' = ToLongTensor(label_ids)
               /\ pc' = "dataset"
               /\ UNCHANGED raised
    /\ UNCHANGED <<inputs, vocabVars, labelVars, dataset, loopVars, torchVars,
                   outVars>>

\* BertNerDataset(input_ids, label_ids): __init__ keeps the two tensors
BertNerDataset(x, y) == [input_ids |-> x, label_ids |-> y]

\* dataset = BertNerDataset(input_ids[:8000], label_ids[:8000]) and the
\* DataLoader over it
DatasetCell ==
    /\ pc = "dataset"
    /\ dataset' = BertNerDataset(Take(input_ids, DatasetCap),
                                 Take(label_ids, DatasetCap))
    /\ pc' = IF nb = EvalNotebook THEN "load" ELSE "models"
    /\ UNCHANGED <<inputs, raised, vocabVars, labelVars, bindings, loopVars,
                   torchVars, outVars>>

\* DataLoader(shuffle=True) builds a RandomSampler, which in the torch
\* releases of the notebooks' time rejects a dataset of length 0
DatasetCellRaises ==
    /\ pc = "dataset"
    /\ Len(Take(input_ids, DatasetCap)) = 0
    /\ Halt("ValueError")
    /\ UNCHANGED <<inputs, vocabVars, labelVars, bindings, dataset, loopVars,
                   torchVars, outVars>>

\* modelList = [...]: the four models are built before any is trained
ModelsCell ==
    /\ pc = "models"
    /\ modelList' = [i \in 0..3 |-> NewModel(nb, i, config)]
    /\ grads' = [i \in 0..3 |-> {}]
    /\ index' = 0
    /\ pc' = "model"
    /\ UNCHANGED <<inputs, raised, vocabVars, labelVars, bindings, dataset,
                   epoch, step, remaining, optimizer, loss, W, outVars>>

(***************************************************************************)
(* The DataLoader: batches of BATCH_SIZE positions drawn without           *)
(* replacement in a random order, the last batch of an epoch possibly      *)
(* shorter.                                                                *)
(***************************************************************************)
Positions == DOMAIN dataset.input_ids

\* as if batch_size = BATCH_SIZE were left out of the DataLoader call
BatchSetsOfOne(rem) == {{x} : x \in rem}

\* the sets of positions the sampler can yield next: any BATCH_SIZE of the
\* remaining ones while these are few, the first BATCH_SIZE in dataset order
\* when more than BATCH_SIZE + MaxShuffle remain
BatchSets(rem) ==
    IF Cardinality(rem) <= BATCH_SIZE + MaxShuffle
        THEN {S \in SUBSET rem : Cardinality(S) = Min(BATCH_SIZE, Cardinality(rem))}
        ELSE {{x \in rem : Cardinality({y \in rem : y < x}) < BATCH_SIZE}}

Ascending(S) ==
    [k \in 1..Cardinality(S) |->
        CHOOSE x \in S : Cardinality({y \in S : y <= x}) = k]

\* the orders of the rows inside a batch: every order for a batch of up to
\* MaxShuffle rows, dataset order for a longer one
BatchOrders(S) ==
    IF Cardinality(S) <= MaxShuffle THEN Enumerations(S) ELSE {Ascending(S)}

\* the (input rows, label rows) pair the DataLoader yields for positions q
BatchOf(q) ==
    [input_ids |-> [k \in DOMAIN q |-> dataset.input_ids[q[k]]],
     label_ids |-> [k \in DOMAIN q |-> dataset.label_ids[q[k]]]]

(***************************************************************************)
(* Training cell: for index, model in enumerate(modelList): ...            *)
(***************************************************************************)
\* the loop over modelList is exhausted
TrainingDone ==
    /\ pc = "model"
    /\ index > 3
    /\ pc' = "done"
    /\ UNCHANGED <<inputs, raised, vocabVars, labelVars, bindings, dataset,
                   loopVars, torchVars, outVars>>

\* `if index != k: continue`
SkipModel ==
    /\ pc = "model"
    /\ index <= 3
    /\ ~Trains(nb, index)
    /\ index' = index + 1
    /\ UNCHANGED <<inputs, pc, raised, vocabVars, labelVars, bindings, dataset,
                   epoch, step, remaining, torchVars, outVars>>

\* as if lossDataFrame = pd.DataFrame() stood before the loop over modelList
StartModelSharedTable ==
    /\ pc = "model"
    /\ index <= 3
    /\ Trains(nb, index)
    /\ optimizer' = [model |-> index, params |-> DOMAIN modelList[index].params]
    /\ epoch' = 0
    /\ remaining' = Positions
    /\ pc' = "batch"
    /\ UNCHANGED <<inputs, raised, vocabVars, labelVars, bindings, dataset,
                   index, step, modelList, grads, loss, W, outVars>>

\* lossDataFrame = pd.DataFrame(); optimizer = Adam(model.parameters());
\* the first epoch begins
StartModel ==
    /\ pc = "model"
    /\ index <= 3
    /\ Trains(nb, index)
    /\ lossDataFrame' = <<>>
    /\ optimizer' = [model |-> index, params |-> DOMAIN modelList[index].params]
    /\ epoch' = 0
    /\ remaining' = Positions
    /\ pc' = "batch"
    /\ UNCHANGED <<inputs, raised, vocabVars, labelVars, bindings, dataset,
                   index, step, modelList, grads, loss, W, files, y_pred,
                   printed>>

\* for step, (input_ids, label_ids) in enumerate(dataloader): the loop
\* targets are the module-level names input_ids and label_ids
NextBatch ==
    /\ pc = "batch"
    /\ remaining # {}
    /\ \E S \in BatchSets(remaining) : \E q \in BatchOrders(S) :
         /\ input_ids' = BatchOf(q).input_ids
         /\ label_ids' = BatchOf(q).label_ids
         /\ remaining' = remaining \ S
    /\ step' = IF remaining = Positions THEN 0 ELSE step + 1
    /\ pc' = "forward"
    /\ UNCHANGED <<inputs, raised, vocabVars, labelVars, dataset, index, epoch,
                   torchVars, outVars>>

\* the DataLoader is exhausted and range(EPOCH) is not
NextEpoch ==
    /\ pc = "batch"
    /\ remaining = {}
    /\ epoch + 1 < EPOCH
    /\ epoch' = epoch + 1
    /\ remaining' = Positions
    /\ UNCHANGED <<inputs, pc, raised, vocabVars, labelVars, bindings, dataset,
                   index, step, torchVars, outVars>>

\* as if the epoch loop ended with a break
EpochsDoneEarly ==
    /\ pc = "batch"
    /\ remaining = {}
    /\ pc' = "save"
    /\ UNCHANGED <<inputs, raised, vocabVars, labelVars, bindings, dataset,
                   loopVars, torchVars, outVars>>

\* as if torch.save and to_csv were outside the loop over modelList
EpochsDoneNoSave ==
    /\ pc = "batch"
    /\ remaining = {}
    /\ epoch + 1 >= EPOCH
    /\ index' = index + 1
    /\ pc' = "model"
    /\ UNCHANGED <<inputs, raised, vocabVars, labelVars, bindings, dataset,
                   epoch, step, remaining, torchVars, outVars>>

\* both loops are exhausted
EpochsDone ==
    /\ pc = "batch"
    /\ remaining = {}
    /\ epoch + 1 >= EPOCH
    /\ pc' = "save"
    /\ UNCHANGED <<inputs, raised, vocabVars, labelVars, bindings, dataset,
                   loopVars, torchVars, outVars>>

\* loss = model(input_ids, tags=label_ids)
ForwardStep ==
    /\ pc = "forward"
    /\ \E w \in IF index = 3 /\ ~KeepsTuple(nb, index) THEN WeightDraws ELSE {W} :
         LET r == Forward(nb, index, modelList[index], input_ids, label_ids, w) IN
         IF r.op = "raise"
            THEN /\ Halt(r.exc)
                 /\ UNCHANGED <<loss, W>>
            ELSE /\ loss' = r
                 /\ W' = w
                 /\ pc' = "log"
                 /\ UNCHANGED raised
    /\ UNCHANGED <<inputs, vocabVars, labelVars, bindings, dataset, loopVars,
                   modelList, optimizer, grads, outVars>>

\* the row of the loss table a logged step writes
LossRow(n, e, st) ==
    IF n = "ber-ner-2"
        THEN (e + 1) * ((st + 1) \div LogEvery) - 1
        ELSE (e + 1) * ((st + 1) \div LogEvery)

\* as if the test were `if 0 == step % 10`
LogStepZeroBased ==
    /\ pc = "log"
    /\ lossDataFrame' =
         IF step % LogEvery = 0
            THEN (<<LossRow(nb, epoch, step), nameList(nb)[index]>> :> loss)
                    @@ lossDataFrame
            ELSE lossDataFrame
    /\ pc' = "zero_grad"
    /\ UNCHANGED <<inputs, raised, vocabVars, labelVars, bindings, dataset,
                   loopVars, torchVars, files, y_pred,
                   printed>>

\* if 0 == (step+1) % 10: lossDataFrame.loc[row, nameList[index]] = loss.item()
LogStep ==
    /\ pc = "log"
    /\ lossDataFrame' =
         IF (step + 1) % LogEvery = 0
            THEN (<<LossRow(nb, epoch, step), nameList(nb)[index]>> :> loss)
                    @@ lossDataFrame
            ELSE lossDataFrame
    /\ pc' = "zero_grad"
    /\ UNCHANGED <<inputs, raised, vocabVars, labelVars, bindings, dataset,
                   loopVars, torchVars, files, y_pred,
                   printed>>

\* as if the optimizer.zero_grad() line were missing
ZeroGradStepKeeps ==
    /\ pc = "zero_grad"
    /\ pc' = "backward"
    /\ UNCHANGED <<inputs, raised, vocabVars, labelVars, bindings, dataset,
                   loopVars, torchVars, outVars>>

\* optimizer.zero_grad()
ZeroGradStep ==
    /\ pc = "zero_grad"
    /\ grads' = [grads EXCEPT ![optimizer.model] = {}]
    /\ pc' = "backward"
    /\ UNCHANGED <<inputs, raised, vocabVars, labelVars, bindings, dataset,
                   loopVars, modelList, optimizer, loss, W, outVars>>

\* loss.backward(): the gradient of this step's loss is added to the
\* gradients held by the parameters the loss was computed from
BackwardStep ==
    /\ pc = "backward"
    /\ grads' = [grads EXCEPT ![index] = @ \cup {<<epoch, step>>}]
    /\ pc' = "step"
    /\ UNCHANGED <<inputs, raised, vocabVars, labelVars, bindings, dataset,
                   loopVars, modelList, optimizer, loss, W, outVars>>

\* optimizer.step(): every parameter handed to the optimizer is updated
OptimizerStep ==
    /\ pc = "step"
    /\ modelList' =
         [modelList EXCEPT ![optimizer.model].params =
             [p \in DOMAIN @ |-> IF p \in optimizer.params THEN @[p] + 1 ELSE @[p]]]
    /\ pc' = "batch"
    /\ UNCHANGED <<inputs, raised, vocabVars, labelVars, bindings, dataset,
                   loopVars, optimizer, grads, loss, W, outVars>>

\* as if the step were wrapped in try/except and the loops left by break
StepRaisesCaught ==
    /\ pc \in {"forward", "backward"}
    /\ raised' = [exc |-> "RuntimeError", at |-> pc]
    /\ pc' = "save"
    /\ UNCHANGED <<inputs, vocabVars, labelVars, bindings, dataset, loopVars,
                   torchVars, outVars>>

\* a library call of the training step raises (out of memory, a shape
\* mismatch, an interrupt)
StepRaises ==
    /\ pc \in {"forward", "backward"}
    /\ Halt("RuntimeError")
    /\ UNCHANGED <<inputs, vocabVars, labelVars, bindings, dataset, loopVars,
                   torchVars, outVars>>

\* open(path, "w") and write: the file holds the new content only
WriteFile(fs, path, content, by) ==
    (path :> [content |-> content,
              writes |-> IF path \in DOMAIN fs THEN fs[path].writes + 1 ELSE 1,
              by |-> by]) @@ fs

CheckpointName(n, i) == nameList(n)[i] \o ".pt"

CsvNameShared(n, i) == "loss_of_ner.csv"

CsvName(n, i) == nameList(n)[i] \o "_loss_of_ner.csv"

\* torch.save(model.state_dict(), nameList[index] + ".pt")
SaveCheckpoint ==
    /\ pc = "save"
    /\ files' = WriteFile(files, CheckpointName(nb, index),
                          modelList[index].params, index)
    /\ pc' = "csv"
    /\ UNCHANGED <<inputs, raised, vocabVars, labelVars, bindings, dataset,
                   loopVars, torchVars, lossDataFrame, y_pred,
                   printed>>

\* lossDataFrame.to_csv(nameList[index] + "_loss_of_ner.csv", index=False);
\* the loop over modelList moves on
SaveCsv ==
    /\ pc = "csv"
    /\ files' = WriteFile(files, CsvName(nb, index), lossDataFrame, index)
    /\ index' = index + 1
    /\ pc' = "model"
    /\ UNCHANGED <<inputs, raised, vocabVars, labelVars, bindings, dataset,
                   epoch, step, remaining, torchVars, lossDataFrame, y_pred,
                   printed>>

(***************************************************************************)
(* Evaluation notebook                                                     *)
(***************************************************************************)
\* model = AlBertBiGRUCRFNer(...); model.load_state_dict(torch.load(path));
\* the one model is kept at position 2, its place in nameList
LoadCell ==
    /\ pc = "load"
    /\ modelList' = [i \in {2} |-> [params |-> EarlierCheckpoint,
                                    word_embeddings |-> config.vocab_size]]
    /\ index' = 2
    /\ remaining' = Positions
    /\ pc' = "eval_batch"
    /\ UNCHANGED <<inputs, raised, vocabVars, labelVars, bindings, dataset, epoch,
                   step, optimizer, grads, loss, W, outVars>>

\* torch.load finds no file at the path
LoadCellRaises ==
    /\ pc = "load"
    /\ Halt("FileNotFoundError")
    /\ UNCHANGED <<inputs, vocabVars, labelVars, bindings, dataset, loopVars,
                   torchVars, outVars>>

\* for step, (input_ids, label_ids) in enumerate(dataloader): first batch
EvalBatch ==
    /\ pc = "eval_batch"
    /\ remaining # {}
    /\ \E S \in BatchSets(remaining) : \E q \in BatchOrders(S) :
         /\ input_ids' = BatchOf(q).input_ids
         /\ label_ids' = BatchOf(q).label_ids
         /\ remaining' = remaining \ S
    /\ step' = 0
    /\ pc' = "eval_forward"
    /\ UNCHANGED <<inputs, raised, vocabVars, labelVars, dataset, index, epoch,
                   torchVars, outVars>>

\* the DataLoader of the evaluation notebook yields nothing
EvalEmpty ==
    /\ pc = "eval_batch"
    /\ remaining = {}
    /\ pc' = "done"
    /\ UNCHANGED <<inputs, raised, vocabVars, labelVars, bindings, dataset,
                   loopVars, torchVars, outVars>>

\* as if the padded places were left out of the scores
MacroScoreUnpadded(metric, true, pred, i) ==
    [op |-> metric, average |-> "macro", row |-> i,
     samples |-> Len(true[i]),
     left_out |-> {p \in DOMAIN true[i] : true[i][p] = 0}]

\* precision_score, recall_score or f1_score(true[i], pred[i],
\* average="macro"): the score of row i, named by the number of places of
\* the row and the places it leaves out of the comparison, which are none
MacroScore(metric, true, pred, i) ==
    [op |-> metric, average |-> "macro", row |-> i,
     samples |-> Len(true[i]), left_out |-> {}]

\* precision_recall_f1(true, pred): the mean over the rows of each score
precision_recall_f1(true, pred) ==
    LET m == Len(true) IN
    [metric \in {"precision", "recall", "f1"} |->
        [op |-> "mean",
         arg |-> [i \in 1..m |-> MacroScore(metric, true, pred, i)]]]

\* y_pred = model(input_ids, None); the scores are printed; break
EvalForward ==
    /\ pc = "eval_forward"
    /\ LET r == Forward(nb, index, modelList[index], input_ids, <<>>, W) IN
         IF r.op = "raise"
            THEN /\ Halt(r.exc)
                 /\ UNCHANGED <<y_pred, printed>>
            ELSE /\ y_pred' = r
                 /\ printed' = Append(printed,
                                      precision_recall_f1(label_ids, r.paths))
                 /\ pc' = "done"
                 /\ UNCHANGED raised
    /\ UNCHANGED <<inputs, vocabVars, labelVars, bindings, dataset,
                   loopVars, torchVars, lossDataFrame, files>>

Next ==
    \/ ReadVocabCell
    \/ HandleCell
    \/ TensorCell
    \/ DatasetCell
    \/ DatasetCellRaises
    \/ ModelsCell
    \/ TrainingDone
    \/ SkipModel
    \/ StartModel
    \/ NextBatch
    \/ NextEpoch
    \/ EpochsDone
    \/ ForwardStep
    \/ LogStep
    \/ ZeroGradStep
    \/ BackwardStep
    \/ OptimizerStep
    \/ StepRaises
    \/ SaveCheckpoint
    \/ SaveCsv
    \/ LoadCell
    \/ LoadCellRaises
    \/ EvalBatch
    \/ EvalEmpty
    \/ EvalForward

Spec == Init /\ [][Next]_vars

\* The runs in which the training loop reaches its logging steps: the
\* training notebooks on the long files (the notebook that draws attention
\* weights on the shorter one), and the evaluation notebook on an empty and
\* a one-sentence file, each under both configurations.
InitLog ==
    /\ vocabFile = <<"[CLS]", "[SEP]">>
    /\ \/ /\ nb \in TrainNotebooks
          /\ trainFile \in LongFiles
          /\ nb = "albert-ner-2" => Len(trainFile) < LogEvery * BATCH_SIZE
       \/ /\ nb = EvalNotebook
          /\ trainFile \in {<<>>, <<BlankLine>>}
    /\ handleFile = trainFile
    /\ config \in Configs(vocabFile)
    /\ InitRest

SpecLog == InitLog /\ [][Next]_vars

(***************************************************************************)
(* Properties                                                              *)
(***************************************************************************)
ReadVocabReturned == pc # "readVocab"

HandleReturned == pc \notin {"readVocab", "handle"} /\ raised.at # "handle"

TrainingPcs == {"forward", "log", "zero_grad", "backward", "step"}

\* d maps its keys one-to-one onto 1..(number of keys)
IsDenseIds(d) ==
    /\ \A k \in DOMAIN d : d[k] \in 1..Cardinality(DOMAIN d)
    /\ \A k1, k2 \in DOMAIN d : d[k1] = d[k2] => k1 = k2
    /\ \A v \in 1..Cardinality(DOMAIN d) : \E k \in DOMAIN d : d[k] = v

\* C1: once readVocab has returned, the keys of vocab2id are the distinct
\* tokens of the two files and its values are exactly 1..vocab_size, each
\* used once; once handle has returned, label2id has the same property over
\* label_list, with values exactly 1..label_size.
C1_DenseIds ==
    /\ ReadVocabReturned =>
         /\ DOMAIN vocab2id = Range(VocabList(vocabFile, trainFile))
         /\ IsDenseIds(vocab2id)
         /\ vocab_size = Cardinality(DOMAIN vocab2id)
    /\ HandleReturned =>
         /\ DOMAIN label2id = LabelListOf(handleFile)
         /\ IsDenseIds(label2id)
         /\ label_size = Cardinality(DOMAIN label2id)

\* handle has returned for files in which tokens repeat
C1_Witness ==
    /\ pc = "tensor"
    /\ Len(VocabList(vocabFile, trainFile)) > vocab_size
    /\ vocab_size >= 3
    /\ label_size >= 3

\* C2: when handle has returned, it has encoded one input row and one label
\* row per sentence, and every row, whatever the length of its sentence, has
\* exactly max_seq_length entries; so has every row of the dataset.
C2_RowLength ==
    /\ pc = "tensor" =>
         /\ Len(input_ids) = Len(words)
         /\ Len(label_ids) = Len(labels)
         /\ \A s \in DOMAIN words :
              /\ Len(input_ids[s]) = max_seq_length
              /\ Len(label_ids[s]) = max_seq_length
    /\ \A s \in DOMAIN dataset.input_ids :
         /\ Len(dataset.input_ids[s]) = max_seq_length
         /\ Len(dataset.label_ids[s]) = max_seq_length

\* handle has returned an empty sentence and one too long for a row
C2_Witness ==
    /\ pc = "tensor"
    /\ \E s \in DOMAIN words : Len(words[s]) = 0
    /\ \E s \in DOMAIN words : Len(words[s]) > max_seq_length - 2

\* a non-blank line of the file starts with a token that d has no key for
UnknownToken(file, d) ==
    \E i \in DOMAIN file : file[i] # BlankLine /\ file[i][1] \notin DOMAIN d

\* C3: if the file handed to handle holds a token that vocab2id has no key
\* for, the run never gets past the handle cell: handle delivers no
\* input_ids/label_ids, no model is built and no file is written.
C3_UnknownTokenStopsRun ==
    (ReadVocabReturned /\ UnknownToken(handleFile, vocab2id)) =>
        /\ pc \in {"handle", "halted"}
        /\ pc = "halted" => raised.at = "handle"
        /\ input_ids = <<>> /\ label_ids = <<>> /\ label2id = <<>>
        /\ modelList = <<>>
        /\ files = <<>>

\* the number of optimizer updates applied to the model at position i
Updates(i) == modelList[i].params["crf"]

NumBatches == (Cardinality(Positions) + BATCH_SIZE - 1) \div BATCH_SIZE

ModelsBuilt == nb \in TrainNotebooks /\ DOMAIN modelList = 0..3

\* C4: when a training step of the model at `index` has raised, the run is
\* halted; neither the checkpoint nor the loss CSV of that model exists; no
\* later model has been touched; every earlier trained model still has its
\* checkpoint, holding its parameters, and its CSV.  The step that raises
\* changes no file, model or loss table, and nothing runs after the halt.
C4_RaiseHaltsTraining ==
    /\ [](raised.at \in TrainingPcs =>
            /\ pc = "halted"
            /\ CheckpointName(nb, index) \notin DOMAIN files
            /\ CsvName(nb, index) \notin DOMAIN files
            /\ \A j \in (index + 1)..3 :
                 modelList[j] = NewModel(nb, j, config) /\ grads[j] = {}
            /\ \A j \in 0..(index - 1) : Trains(nb, j) =>
                 /\ CheckpointName(nb, j) \in DOMAIN files
                 /\ CsvName(nb, j) \in DOMAIN files
                 /\ files[CheckpointName(nb, j)].content = modelList[j].params
                 /\ files[CheckpointName(nb, j)].writes = 1
                 /\ files[CsvName(nb, j)].writes = 1)
    /\ [][/\ pc # "halted"
          /\ pc' = "halted" =>
               UNCHANGED <<files, modelList, lossDataFrame, grads, index>>]_vars

\* a training step of the second model of the list raised, after the first
\* model's artifacts were written
C4_Witness ==
    /\ raised.at \in TrainingPcs
    /\ index = 1
    /\ Updates(0) > 0
    /\ CsvName(nb, 0) \in DOMAIN files

\* C5: a model is trained only once the data is loaded and the models are
\* built; its checkpoint exists only when all EPOCH epochs of optimizer steps
\* have been applied to it, and holds the parameters after the last step; its
\* loss CSV exists only when its checkpoint does.
C5_StageOrder ==
    ModelsBuilt =>
        \A i \in 0..3 :
            /\ ((index = i /\ pc \in TrainingPcs) \/ Updates(i) > 0) =>
                 /\ HandleReturned
                 /\ Len(dataset.input_ids) > 0
            /\ CheckpointName(nb, i) \in DOMAIN files =>
                 /\ Updates(i) = EPOCH * NumBatches
                 /\ files[CheckpointName(nb, i)].content = modelList[i].params
            /\ CsvName(nb, i) \in DOMAIN files =>
                 CheckpointName(nb, i) \in DOMAIN files

\* both artifacts of a model exist after two epochs of two steps each
C5_Witness ==
    /\ ModelsBuilt
    /\ EPOCH = 2
    /\ \E i \in 0..3 : CsvName(nb, i) \in DOMAIN files /\ Updates(i) = 4

\* the training of the model at position i has run to its end
Completed(i) == ModelsBuilt /\ Trains(nb, i) /\ index > i

\* C6: a model whose training has completed has written exactly two files,
\* nameList[index] + ".pt" and nameList[index] + "_loss_of_ner.csv", each
\* once; the names of nameList are pairwise distinct and no file of the run
\* has been written twice.
C6_OneArtifactPair ==
    /\ \A i \in 0..3 : Completed(i) =>
         /\ {f \in DOMAIN files : files[f].by = i} =
                {nameList(nb)[i] \o ".pt", nameList(nb)[i] \o "_loss_of_ner.csv"}
         /\ \A f \in DOMAIN files : files[f].by = i => files[f].writes = 1
    /\ \A f \in DOMAIN files : files[f].writes = 1
    /\ \A i, j \in 0..3 : nameList(nb)[i] = nameList(nb)[j] => i = j

\* three models of the first albert-ner notebook have completed
C6_Witness ==
    /\ nb = "albert-ner-1"
    /\ Completed(2)
    /\ Updates(2) > 0

\* C7: the weights SelfAttention.forward uses lie in [-std, std] (here in
\* units of std); whatever the earlier calls drew and whatever the optimizer
\* did, the next call can draw any of the values; and the weights are neither
\* among the parameters handed to the optimizer nor in a checkpoint.
C7_FreshWeights ==
    /\ W # <<>> => Len(W) = 3 /\ \A k \in 1..3 : W[k] \in -1..1
    /\ (pc = "forward" /\ index = 3 /\ ~KeepsTuple(nb, index)
          /\ ~EmbeddingRaises(modelList[index], input_ids)) =>
         \A w \in WeightDraws : ENABLED (ForwardStep /\ W' = w)
    /\ optimizer.params \cap AttentionWeights = {}
    /\ ModelsBuilt =>
         \A i \in 0..3 : CheckpointName(nb, i) \in DOMAIN files =>
             DOMAIN files[CheckpointName(nb, i)].content \cap AttentionWeights = {}

\* SelfAttention.forward is about to be called again after an optimizer step
C7_Witness ==
    /\ nb = "albert-ner-2"
    /\ pc = "forward"
    /\ index = 3
    /\ W # <<>>
    /\ Updates(3) >= 1

\* C8: no forward of a model class fails by itself; a loss that forward
\* returned is the negated mean-reduced CRF log-likelihood of the tags, and a
\* prediction it returned is the CRF decoding of the permuted output.
C8_ForwardReturnsCrfResult ==
    /\ ~(raised.at = "forward" /\ raised.exc = "TypeError")
    /\ loss # NoLoss =>
         /\ loss.op = "neg"
         /\ loss.arg.op = "crf"
         /\ loss.arg.reduction = "mean"
    /\ y_pred # NoLoss =>
         /\ y_pred.op = "crf.decode"
         /\ y_pred.emissions.axes = <<"seq", "batch", "tag">>

\* C9: no step taken after readVocab has returned changes vocab2id or
\* id2vocab, and no step taken after handle has returned changes label2id or
\* id2label.
C9_MappingsBuiltOnce ==
    [][/\ ReadVocabReturned => UNCHANGED <<vocab2id, id2vocab>>
       /\ HandleReturned => UNCHANGED <<label2id, id2label>>]_vars

\* a training has run to its end with the mappings in place
C9_Witness ==
    /\ pc = "done"
    /\ files # <<>>
    /\ vocab2id # <<>>
    /\ label2id # <<>>

\* a training step of the model at position i is being run, or has been
Started(i) == (index = i /\ pc \in TrainingPcs) \/ Updates(i) > 0

\* the training of the model at position i has begun and its CSV is not yet
\* written
InProgress(i) ==
    /\ pc # "halted"
    /\ Started(i)
    /\ CsvName(nb, i) \notin DOMAIN files

\* C10: of two models the notebook trains, the later in modelList has no
\* training step before the checkpoint and the CSV of the earlier are
\* written; and no two trainings are in progress together.
C10_OneModelAtATime ==
    ModelsBuilt =>
        /\ \A i, j \in 0..3 :
             (i < j /\ Trains(nb, i) /\ Trains(nb, j) /\ Started(j)) =>
                 /\ CheckpointName(nb, i) \in DOMAIN files
                 /\ CsvName(nb, i) \in DOMAIN files
        /\ \A i, j \in 0..3 : (InProgress(i) /\ InProgress(j)) => i = j

\* the second model is in a training step, the first one's files written
C10_Witness ==
    /\ nb = "albert-ner-1"
    /\ index = 1
    /\ pc = "step"
    /\ Updates(0) > 0
    /\ CsvName(nb, 0) \in DOMAIN files

\* row is the encoding of the sentence items under dict: the id of "[CLS]"
\* at position 0, the ids of the first k items at 1..k, 0 from k+1 to
\* max_seq_length - 2, the id of "[SEP]" at max_seq_length - 1 (positions
\* counted from 0; a sequence's index is the position plus one)
HasRowLayout(row, items, dict) ==
    LET k == Min(Len(items), max_seq_length - 2) IN
    /\ Len(row) = max_seq_length
    /\ row[1] = dict["[CLS]"]
    /\ \A p \in 1..k : row[p + 1] = dict[items[p]]
    /\ \A p \in (k + 1)..(max_seq_length - 2) : row[p + 1] = 0
    /\ row[max_seq_length] = dict["[SEP]"]

\* C11: when handle has returned, the input row of every sentence has the
\* layout [CLS], first k token ids, zeros, [SEP] with
\* k = min(n, max_seq_length - 2), and the label row has the same layout with
\* label ids.
C11_RowLayout ==
    pc = "tensor" =>
        \A s \in DOMAIN words :
            /\ HasRowLayout(input_ids[s], words[s], vocab2id)
            /\ HasRowLayout(label_ids[s], labels[s], label2id)

\* handle returned a truncated sentence and a padded one, under a vocabulary
\* whose token id differs from those of "[CLS]" and "[SEP]"
C11_Witness ==
    /\ pc = "tensor"
    /\ \E s \in DOMAIN words : Len(words[s]) = max_seq_length - 1
    /\ \E s \in DOMAIN words :
         /\ Len(words[s]) < max_seq_length - 2
         /\ input_ids[s][max_seq_length - 1] = 0
         /\ input_ids[s][max_seq_length] = vocab2id["[SEP]"]
    /\ Cardinality(DOMAIN vocab2id) = 3

\* line p of sentence s of the file handle read
LineOf(file, s, p) == file[KthBlank(file, s - 1) + p]

\* C12: when handle has returned there are as many label rows as input rows;
\* at every position of a row that holds a token of the sentence, the input
\* id is the id of the token of a line of the file and the label id is the
\* id of the label of that same line; a position holds 0 in the input row
\* exactly when it holds 0 in the label row; and the two rows keep the same
\* number of leading lines of a sentence that is too long.
C12_RowsAligned ==
    pc = "tensor" =>
        /\ Len(label_ids) = Len(input_ids)
        /\ \A s \in DOMAIN input_ids :
             LET k == Min(Len(words[s]), max_seq_length - 2) IN
             /\ Len(labels[s]) = Len(words[s])
             /\ \A p \in 1..k :
                  /\ id2vocab[input_ids[s][p + 1]] = LineOf(handleFile, s, p)[1]
                  /\ id2label[label_ids[s][p + 1]] = LineOf(handleFile, s, p)[2]
             /\ \A p \in 1..max_seq_length :
                  input_ids[s][p] = 0 <=> label_ids[s][p] = 0
             /\ \A p \in (k + 2)..(max_seq_length - 1) :
                  input_ids[s][p] = 0 /\ label_ids[s][p] = 0

\* handle returned a truncated sentence whose lines do not all carry the
\* same label
C12_Witness ==
    /\ pc = "tensor"
    /\ \E s \in DOMAIN words :
         /\ Len(words[s]) > max_seq_length - 2
         /\ \E p, q \in DOMAIN labels[s] : labels[s][p] # labels[s][q]

\* handle is given the file readVocab scanned, as the default arguments do
DefaultFiles == handleFile = trainFile

\* the labels the non-blank lines of a file carry
LabelsMet(file) ==
    {file[i][2] : i \in {j \in DOMAIN file : Len(file[j]) >= 2}}

\* C13: with the default files, once readVocab has returned every first
\* field of a non-blank line of data/train.txt is a key of vocab2id, so a
\* KeyError that leaves handle can only come from "[CLS]" or "[SEP]" missing
\* in vocab2id; once handle has returned every label met is a key of
\* label2id, and so are "[CLS]" and "[SEP]" whether or not a line carries
\* them.
C13_DefaultLookupsSucceed ==
    /\ (ReadVocabReturned /\ DefaultFiles) =>
         /\ ~UnknownToken(handleFile, vocab2id)
         /\ (raised.at = "handle" /\ raised.exc = "KeyError") =>
              ~({"[CLS]", "[SEP]"} \subseteq DOMAIN vocab2id)
    /\ HandleReturned =>
         /\ LabelsMet(handleFile) \subseteq DOMAIN label2id
         /\ {"[CLS]", "[SEP]"} \subseteq DOMAIN label2id

\* handle returned sentences whose token the vocabulary file does not list
\* and whose lines carry neither "[CLS]" nor "[SEP]" as a label
C13_Witness ==
    /\ pc = "tensor"
    /\ DefaultFiles
    /\ \E s \in DOMAIN words : \E p \in DOMAIN words[s] :
         words[s][p] \notin Range(vocabFile)
    /\ LabelsMet(handleFile) \cap {"[CLS]", "[SEP]"} = {}
    /\ LabelsMet(handleFile) # {}

\* the positions (sequence indices) of a row the while loop filled with 0,
\* for a sentence of n items
PaddedPositions(n) == (Min(n, max_seq_length - 2) + 2)..(max_seq_length - 1)

\* C14: 0 is not a value of vocab2id nor of label2id, and in every encoded
\* row, as handle returns it and as the dataset is built from it, the
\* positions that hold 0 are exactly the padded ones.
C14_ZeroIsPaddingOnly ==
    /\ \A t \in DOMAIN vocab2id : vocab2id[t] # 0
    /\ \A l \in DOMAIN label2id : label2id[l] # 0
    /\ pc = "tensor" =>
         \A s \in DOMAIN input_ids : \A p \in 1..max_seq_length :
             /\ input_ids[s][p] = 0 <=> p \in PaddedPositions(Len(words[s]))
             /\ label_ids[s][p] = 0 <=> p \in PaddedPositions(Len(labels[s]))
    /\ pc \in {"load", "models"} =>
         \A s \in DOMAIN dataset.input_ids : \A p \in 1..max_seq_length :
             /\ dataset.input_ids[s][p] = 0 <=> p \in PaddedPositions(Len(words[s]))
             /\ dataset.label_ids[s][p] = 0 <=> p \in PaddedPositions(Len(labels[s]))

\* the dataset holds a padded row of a sentence that has a token
C14_Witness ==
    /\ pc \in {"load", "models"}
    /\ \E s \in DOMAIN dataset.input_ids :
         /\ Len(words[s]) > 0
         /\ PaddedPositions(Len(words[s])) # {}
         /\ dataset.input_ids[s][2] = vocab2id[words[s][1]]

\* the loss held is the one computed on the batch now bound to input_ids and
\* label_ids, from the current parameters of the model at `index`
LossOfCurrentBatch ==
    /\ loss.op = "neg"
    /\ loss.arg.emissions.input = input_ids
    /\ loss.arg.tags.ids = label_ids
    /\ loss.arg.emissions.params = modelList[index].params

\* C15: within a training step the loss of the current batch is computed
\* first, then the gradients are cleared, then backward runs, then the
\* optimizer updates; so when backward is about to run the model holds no
\* gradient, and when the optimizer is about to update, the gradient held by
\* the parameters it reads is that of the current (epoch, step) alone.
C15_StepOrder ==
    /\ [](/\ pc \in {"log", "zero_grad", "backward", "step"} => LossOfCurrentBatch
          /\ pc = "backward" => grads[index] = {}
          /\ pc = "step" => grads[index] = {<<epoch, step>>} /\ optimizer.model = index)
    /\ [][/\ (pc = "forward" /\ pc' # "halted") => pc' = "log"
          /\ pc = "log" => pc' = "zero_grad"
          /\ pc = "zero_grad" => pc' = "backward"
          /\ (pc = "backward" /\ pc' # "halted") => pc' = "step"
          /\ pc = "step" =>
               /\ pc' = "batch"
               /\ Updates(index)' = Updates(index) + 1
          /\ pc \notin {"step", "load", "models"} => UNCHANGED modelList]_vars

\* the optimizer is about to apply the second update of a model
C15_Witness ==
    /\ pc = "step"
    /\ step = 1
    /\ Updates(index) = 1
    /\ grads[index] = {<<0, 1>>}

\* the step being run is one whose 1-based number is a multiple of 10
LoggedStep == (step + 1) % LogEvery = 0

C17_RowsNeverCollide ==
    /\ [][(pc = "log" /\ LoggedStep) =>
            <<LossRow(nb, epoch, step), nameList(nb)[index]>>
                \notin DOMAIN lossDataFrame]_vars
    /\ [](\A i \in 0..3 :
            (ModelsBuilt /\ CsvName(nb, i) \in DOMAIN files) =>
                Cardinality(DOMAIN files[CsvName(nb, i)].content)
                    = EPOCH * (NumBatches \div LogEvery))

\* the files written under the name of the model at position i
FilesOf(i) == {f \in DOMAIN files : files[f].by = i}

\* C18: a model the index filter skips receives no optimizer step and no
\* file; the training cell is not stopped by a model's own forward; and when
\* the cell has run to its end every model that passes the filter (index 2
\* in ber-ner-2, index 3 in the second albert-ner notebook, all four in the
\* first) has its checkpoint and its CSV, written in list order.
C18_ArtifactsFollowFilter ==
    ModelsBuilt =>
        /\ \A i \in 0..3 : ~Trains(nb, i) => Updates(i) = 0 /\ FilesOf(i) = {}
        /\ ~(raised.at = "forward" /\ raised.exc = "TypeError")
        /\ pc = "done" =>
             \A i \in 0..3 : Trains(nb, i) =>
                 /\ FilesOf(i) = {CheckpointName(nb, i), CsvName(nb, i)}
                 /\ Updates(i) = EPOCH * NumBatches
        /\ \A i, j \in 0..3 : (i < j /\ FilesOf(j) # {} /\ Trains(nb, i)) =>
                 FilesOf(i) # {}

\* ceil(n / BATCH_SIZE)
CeilBatches(n) == (n + BATCH_SIZE - 1) \div BATCH_SIZE

\* the tensor row of an encoded sentence
TensorRow(items, dict) == ToLongTensor(<<EncodeRow(items, dict).row>>)[1]

C20_CrfSequenceFirst ==
    /\ loss # NoLoss =>
         /\ loss.arg.emissions.axes = <<"seq", "batch", "tag">>
         /\ loss.arg.tags.axes = <<"seq", "batch">>
    /\ y_pred # NoLoss =>
         y_pred.emissions.axes = <<"seq", "batch", "tag">>

\* the number of sentences of a file: the runs of lines closed by a blank
\* line, and the run after the last blank line when the file does not end
\* with one
SentencesIn(file) ==
    Cardinality(BlankAt(file)) +
        (IF file # <<>> /\ file[Len(file)] # BlankLine THEN 1 ELSE 0)

\* C21: when handle has returned, every non-blank line of the file is the
\* p-th line of a returned sentence s, with its token in words[s][p] and its
\* label in labels[s][p], sentences and lines in file order; and handle
\* returned as many sentences as the file holds, the last one included when
\* no blank line follows it.
C21_EveryLineReturned ==
    pc = "tensor" =>
        /\ \A i \in DOMAIN handleFile : handleFile[i] # BlankLine =>
             \E s \in DOMAIN words : \E p \in DOMAIN words[s] :
                 /\ KthBlank(handleFile, s - 1) + p = i
                 /\ words[s][p] = handleFile[i][1]
                 /\ labels[s][p] = handleFile[i][2]
        /\ Len(words) = SentencesIn(handleFile)

\* inv is the inverse of the dict d, whose ids are 1..n
IsInverseOf(inv, d, n) ==
    /\ \A w \in DOMAIN d : d[w] \in DOMAIN inv /\ inv[d[w]] = w
    /\ \A i \in 1..n :
         i \in DOMAIN inv /\ inv[i] \in DOMAIN d /\ d[inv[i]] = i

\* C22: once readVocab has returned, id2vocab is the inverse of vocab2id
\* over the ids 1..vocab_size; once handle has returned, id2label is the
\* inverse of label2id over the ids 1..label_size.
C22_InverseMappings ==
    /\ ReadVocabReturned => IsInverseOf(id2vocab, vocab2id, vocab_size)
    /\ HandleReturned => IsInverseOf(id2label, label2id, label_size)

\* both pairs of mappings exist, built from a vocabulary file that lists a
\* token twice and from a file that carries a label of its own
C22_Witness ==
    /\ HandleReturned
    /\ pc = "dataset"
    /\ Len(vocabFile) > vocab_size
    /\ label_size = 3
    /\ id2label # <<>>

\* C23: the mappings of a run are the mappings of every execution on the
\* same files: whatever order another session iterates the vocabulary set
\* and the label set in, it assigns the ids this run assigned, so the
\* session that trained a checkpoint and the session that evaluates it use
\* the same vocab2id and label2id.
C23_IdsReproducible ==
    /\ ReadVocabReturned =>
         \A it \in VocabIterations(VocabList(vocabFile, trainFile)) :
             readVocab(vocabFile, trainFile, it).vocab2id = vocab2id
    /\ HandleReturned =>
         \A it \in Enumerations(LabelListOf(handleFile)) :
             DictOfEnumerate(it) = label2id

\* every entry of a loss table is in the column of the model at position i
\* and is a loss computed by that model
OnlyLossesOf(table, i) ==
    \A key \in DOMAIN table :
        /\ key[2] = nameList(nb)[i]
        /\ table[key].arg.emissions.layers = Layers(nb, i)

\* C24: the optimizer of a training is built over the parameters of the
\* model being trained, and its step changes no other model; the loss table
\* of a training, and the CSV written from it, hold the one column
\* nameList[i] and only losses model i computed.
C24_ModelsIsolated ==
    /\ [](ModelsBuilt =>
            /\ pc \in TrainingPcs =>
                 /\ optimizer.model = index
                 /\ optimizer.params \subseteq DOMAIN modelList[index].params
                 /\ OnlyLossesOf(lossDataFrame, index)
            /\ \A i \in 0..3 : CsvName(nb, i) \in DOMAIN files =>
                 OnlyLossesOf(files[CsvName(nb, i)].content, i))
    /\ [][(ModelsBuilt /\ pc = "step") =>
            /\ \A j \in 0..3 : j # index => modelList'[j] = modelList[j]
            /\ modelList'[index] # modelList[index]]_vars

\* the second model of the list is being updated after the first one wrote
\* a CSV that holds a logged loss, and has logged a loss of its own
C24_Witness ==
    /\ ModelsBuilt
    /\ index = 1
    /\ pc = "step"
    /\ lossDataFrame # <<>>
    /\ CsvName(nb, 0) \in DOMAIN files
    /\ files[CsvName(nb, 0)].content # <<>>

\* C25: whatever vocabulary readVocab built, every token id in the rows
\* handed to a model is an index of the model's word-embedding table, whose
\* number of rows is the configuration's and not vocab_size.
C25_IdsIndexEmbeddings ==
    pc \in {"forward", "eval_forward"} =>
        /\ modelList[index].word_embeddings = config.vocab_size
        /\ ~EmbeddingRaises(modelList[index], input_ids)

\* C26: decoding a batch of B rows returns B tag paths of max_seq_length
\* tags each, the shape of label_ids, and path i holds the tags predicted for
\* the places of row i of the batch, in their order.
C26_DecodeKeepsShape ==
    y_pred # NoLoss =>
        /\ Len(y_pred.paths) = Len(input_ids)
        /\ Len(y_pred.paths) = Len(label_ids)
        /\ \A i \in DOMAIN y_pred.paths :
             /\ y_pred.paths[i].length = max_seq_length
             /\ y_pred.paths[i].length = Len(label_ids[i])
             /\ y_pred.paths[i].of = <<"batch", i>>
             /\ y_pred.paths[i].along = "seq"

\* a batch of several rows, fewer than BATCH_SIZE, has been decoded
C26_Witness ==
    /\ nb = EvalNotebook
    /\ pc = "done"
    /\ y_pred # NoLoss
    /\ Len(input_ids) \in 2..(BATCH_SIZE - 1)

\* what precision_recall_f1 returns for the batch in input_ids, label_ids:
\* for each score the mean, over the rows of the batch, of the macro average
\* over all max_seq_length places of the row
ScoresOfBatch ==
    [metric \in {"precision", "recall", "f1"} |->
        [op |-> "mean",
         arg |-> [i \in DOMAIN label_ids |->
                    [op |-> metric, average |-> "macro", row |-> i,
                     samples |-> max_seq_length, left_out |-> {}]]]]

C28_RerunKeepsDataset ==
    pc = "done" =>
        BertNerDataset(Take(input_ids, DatasetCap),
                       Take(label_ids, DatasetCap)) = dataset
====
